---- MODULE Spec2Model ----
(***************************************************************************)
(* Crawl engine of deepakn82/webcrawler, in its two variants:               *)
(*   "pw"    src/3webmap_playwright.py   (crawl, click_discover_links)      *)
(*   "final" src/final/final_webmap.py   (crawl, click_discover)            *)
(* A URL is a sequence of one-character strings, so that normalize and the  *)
(* host comparison are computed as the code computes them.                  *)
(***************************************************************************)
EXTENDS Integers, Sequences, FiniteSets, TLC

\* ------------------------------------------------------------------ bounds
\* largest page budget (--max-pages) explored; 0 is explored too
MaxPagesBound == 4
\* largest max_clicks_per_page explored for the pw variant (a parameter of crawl)
MaxClicksBound == 2
\* page budget of the dense-site run
DensePages == 7
\* max_clicks passed by crawl of the final variant (a literal in the call)
ClickBudgetFinal == 5
\* longest string of free characters given to normalize
MaxLen == 5
\* largest number of keys besides the start URL given to the tree builders
MaxKeys == 2
\* page budget of the ex.com run (--max-pages 10)
ExMaxPages == 10

\* ------------------------------------------------------------ string helpers
\* In the definitions below a bound variable (t \in {s}) holds the value of an
\* argument, so that the argument is evaluated once however often it is used.

\* index of the first occurrence of character c in s, 0 when absent
IndexOf(s, c) ==
  CHOOSE r \in {IF \E i \in 1..Len(t) : t[i] = c
                THEN CHOOSE i \in 1..Len(t) : t[i] = c /\ \A j \in 1..(i-1) : t[j] # c
                ELSE 0 : t \in {s}} : TRUE

\* mutant of BeforeFirst: nothing is cut off
BeforeFirstKeepsAll(s, c) == s

\* s.split(c, 1)[0]
BeforeFirst(s, c) ==
  CHOOSE r \in {IF i = 0 THEN t ELSE SubSeq(t, 1, i - 1)
                : <<t, i>> \in {<<x, IndexOf(x, c)>> : x \in {s}}} : TRUE

\* s.count("/")
CountSlash(s) ==
  CHOOSE r \in {Cardinality({i \in 1..Len(t) : t[i] = "/"}) : t \in {s}} : TRUE

\* s.endswith("/")
EndsWithSlash(s) == \E t \in {s} : Len(t) > 0 /\ t[Len(t)] = "/"

\* number of trailing "/" of s
TrailingSlashes(s) ==
  CHOOSE r \in {Cardinality({k \in 1..Len(t) : \A i \in k..Len(t) : t[i] = "/"})
                : t \in {s}} : TRUE

\* mutant of RStripSlash: one trailing "/" is removed
RStripOneSlash(s) == IF EndsWithSlash(s) THEN SubSeq(s, 1, Len(s) - 1) ELSE s

\* s.rstrip("/"): every trailing "/" is removed
RStripSlash(s) ==
  CHOOSE r \in {SubSeq(t, 1, Len(t) - TrailingSlashes(t)) : t \in {s}} : TRUE

\* index of the first "://" in s, 0 when absent
SchemeSep(s) ==
  CHOOSE r \in
    {IF hits = {} THEN 0 ELSE CHOOSE i \in hits : \A j \in hits : i <= j
     : hits \in {{i \in 1..(Len(t) - 2) : t[i] = ":" /\ t[i+1] = "/" /\ t[i+2] = "/"}
                 : t \in {s}}} : TRUE

\* s.endswith(t)
EndsWith(s, t) ==
  \E x \in {s} : \E y \in {t} :
    Len(y) <= Len(x) /\ SubSeq(x, Len(x) - Len(y) + 1, Len(x)) = y

\* s.startswith("www.")
StartsWithWww(s) ==
  \E t \in {s} : Len(t) >= 4 /\ SubSeq(t, 1, 4) = <<"w", "w", "w", ".">>

\* ------------------------------------------------------------- URL functions
\* normalize of 3webmap_playwright.py
normalize_pw(link) ==
  CHOOSE r \in {IF l = <<>> THEN l
                ELSE RStripSlash(BeforeFirst(BeforeFirst(l, "#"), "?"))
                : l \in {link}} : TRUE

\* the tail of normalize of final_webmap.py, u being the URL without fragment and
\* query and i the index of its first "://" (0 when it has none)
strip_trailing_final(u, i) ==
  IF i # 0
  THEN CHOOSE r \in
         {SubSeq(u, 1, i - 1) \o <<":", "/", "/">>
            \o (IF EndsWithSlash(rest) /\ CountSlash(rest) > 1
                THEN RStripSlash(rest) ELSE rest)
          : rest \in {SubSeq(u, i + 3, Len(u))}} : TRUE
  ELSE IF EndsWithSlash(u) /\ CountSlash(u) > 1 THEN RStripSlash(u) ELSE u

\* normalize of final_webmap.py
normalize_final(url) ==
  CHOOSE r \in
    {IF l = <<>> THEN l
     ELSE CHOOSE q \in {strip_trailing_final(u, SchemeSep(u))
                        : u \in {BeforeFirst(BeforeFirst(l, "#"), "?")}} : TRUE
     : l \in {url}} : TRUE

normalize(v, url) == IF v = "pw" THEN normalize_pw(url) ELSE normalize_final(url)

\* urlparse(url).netloc: the authority after "://", up to the next "/", "?" or "#"
\* (hosts are written in lower case, so .lower() changes nothing)
netloc(url) ==
  CHOOSE r \in
    {IF p[2] = 0 THEN <<>>
     ELSE BeforeFirst(BeforeFirst(BeforeFirst(SubSeq(p[1], p[2] + 3, Len(p[1])), "/"), "?"), "#")
     : p \in {<<u, SchemeSep(u)>> : u \in {url}}} : TRUE

\* root_domain of final_webmap.py, and the same stripping applied to a link's host
strip_www(net) ==
  CHOOSE r \in {IF StartsWithWww(n) THEN SubSeq(n, 5, Len(n)) ELSE n : n \in {net}} : TRUE

root_domain(url) == strip_www(netloc(url))

\* mutant of same_site: every host passes
same_siteAnyHost(v, url, start) == TRUE

\* the host test each variant applies to a link found in the rendered page:
\* parsed.netloc == domain (pw), netcmp.endswith(root_dom) (final)
same_site(v, url, start) ==
  IF v = "pw" THEN netloc(url) = netloc(start)
  ELSE EndsWith(strip_www(netloc(url)), root_domain(start))

\* ------------------------------------------------------- the sites explored
\* URLs of the test sites: scheme "h", host "e"
Root   == <<"h", ":", "/", "/", "e">>
RootSl == Root \o <<"/">>
PgA    == Root \o <<"/", "a">>
PgASl  == PgA \o <<"/">>
PgB    == Root \o <<"/", "b">>
PgBFr  == PgB \o <<"#", "f">>
RootFr == Root \o <<"#", "f">>
PgC    == Root \o <<"/", "c">>
PgCQ   == PgC \o <<"?", "q">>
PgD    == Root \o <<"/", "d">>
PgE    == Root \o <<"/", "e">>
PgF    == Root \o <<"/", "f">>
PgAB   == PgA \o <<"/", "b">>
PgAC   == PgA \o <<"/", "c">>
PgDB   == PgD \o <<"/", "b">>
\* the page /a of the same host under another scheme
AltA   == <<"s", ":", "/", "/", "e", "/", "a">>
\* a page of the start host with a leading "www."
WwwD   == <<"h", ":", "/", "/", "w", "w", "w", ".", "e", "/", "d">>
\* https://ex.com, https://ex.com/about, https://ex.com/about/team
ExCom  == <<"h", "t", "t", "p", "s", ":", "/", "/", "e", "x", ".", "c", "o", "m">>
ExAbout == ExCom \o <<"/", "a", "b", "o", "u", "t">>
ExTeam == ExAbout \o <<"/", "t", "e", "a", "m">>
\* a page of another host
Off    == <<"h", ":", "/", "/", "x", "/", "a">>
\* what the session shows after a navigation that failed (chrome-error://...)
ErrPage == <<"c", ":", "/", "/", "c", "/">>
\* what a fresh tab shows (about:blank)
Blank  == <<"b", ":">>
\* an href whose host opens a bracket it never closes
Bad    == <<"h", ":", "/", "/", "[">>

\* "h://", the scheme of the sites, standing for "https://"
Scheme == <<"h", ":", "/", "/">>

\* the prefixes main accepts as a scheme: "http://", "https://" and their stand-in
HttpSchemes ==
  {Scheme, <<"h", "t", "t", "p", ":", "/", "/">>, <<"h", "t", "t", "p", "s", ":", "/", "/">>}

\* main: start_url = normalize(args.url), with the scheme put in front if it
\* starts with neither "http://" nor "https://"
main_start_url(v, arg) ==
  LET n == normalize(v, arg)
  IN IF \E p \in HttpSchemes : Len(n) >= Len(p) /\ SubSeq(n, 1, Len(p)) = p
     THEN n ELSE Scheme \o n

Sites == {"mesh", "clicky"}

\* the document the server returns for a URL: the same one with and without
\* fragment, query and trailing slash
Doc(u) == RStripSlash(BeforeFirst(BeforeFirst(u, "#"), "?"))

\* hrefs of the <a> elements of the rendered document, after urljoin
Anchors(s, doc) ==
  CASE s = "mesh" /\ doc = Root -> {PgASl, PgBFr, PgCQ, Off}
    [] s = "mesh" /\ doc = PgA  -> {PgB}
    [] s = "mesh" /\ doc = PgB  -> {PgASl, PgC, RootSl}
    [] s = "dense" /\ doc = Root -> {PgA, PgB, PgC, PgD, PgE}
    [] s = "dense" /\ doc = PgA  -> {PgB, PgC, PgD, PgE}
    [] s = "dense" /\ doc = PgB  -> {PgC, PgD, PgE}
    [] s = "dense" /\ doc = PgC  -> {PgD, PgE}
    [] s = "dense" /\ doc = PgD  -> {PgE, PgF}
    [] s = "dense" /\ doc = PgE  -> {PgF}
    [] s = "broken" /\ doc = Root -> {PgA, PgB}
    [] s = "broken" /\ doc = PgA  -> {Bad, PgC}
    [] s = "broken" /\ doc = PgB  -> {PgC}
    [] s = "ex" /\ doc = ExCom -> {ExAbout, ExTeam}
    [] s = "ex" /\ doc = ExAbout -> {ExTeam, ExCom}
    [] s = "mixed" /\ doc = Root -> {PgA, AltA, WwwD}
    [] s = "mixed" /\ doc = PgA -> {PgAB, PgDB}
    [] OTHER -> {}

\* URLs named by onclick handlers and data-url attributes, after urljoin
JsTargets(s, doc) ==
  CASE s = "mesh" /\ doc = PgA -> {PgCQ, Off}
    [] OTHER -> {}

\* hrefs of the <a> elements of the raw markup a plain fetch returns
StaticAnchors(s, doc) ==
  CASE s = "mesh" /\ doc = PgA -> {PgB}
    [] s = "mesh" /\ doc = PgB -> {PgC}
    [] OTHER -> {}

\* number of elements matching the clickable selector
NumHandles(s, doc) ==
  CASE s = "clicky" /\ doc = Root -> ClickBudgetFinal + 1
    [] s = "mesh" /\ doc = PgB -> 1
    [] s = "broken" /\ doc = PgB -> 1
    [] OTHER -> 0

\* where a click on an element of the document can take the session
ClickTargets(s, doc) ==
  CASE s = "clicky" /\ doc = Root -> {PgASl, Off, RootFr}
    [] s = "mesh" /\ doc = PgB -> {PgD}
    [] s = "broken" /\ doc = PgB -> {PgD}
    [] OTHER -> {}

\* outcomes tab.goto can have for a URL of the site
NavOutcomes(s, u) ==
  CASE s = "mesh" /\ u \in {Root, RootSl} -> {"ok", "error"}
    [] s = "mesh" /\ u = PgA -> {"ok", "timeout", "error"}
    [] s = "mesh" /\ u = PgB -> {"ok", "timeout"}
    [] s = "broken" /\ u = PgA -> {"ok", "timeout", "error"}
    [] s = "ex" /\ u = ExAbout -> {"ok", "timeout", "error"}
    [] s = "ex" /\ u = ExTeam -> {"ok", "error"}
    [] s = "mixed" /\ u \in {PgA, AltA} -> {"ok", "error"}
    [] OTHER -> {"ok"}

\* the URL given on the command line
StartArgs(s) ==
  CASE s = "mesh" -> {Root, RootSl, <<"e", "/">>}
    [] s = "ex" -> {ExCom}
    [] OTHER -> {Root}

\* outcomes of the plain fetch of fetch_html: the markup, or None
FetchOutcomes(s, u) == {"html", "none"}

\* --------------------------------------------------------------------- state
VARIABLES
  variant,      \* "pw" or "final": which file's crawl runs
  site,         \* the site crawled
  start_url,    \* crawl's start_url, as main computes it
  max_pages,    \* crawl's max_pages
  max_clicks,   \* the click budget crawl passes to click discovery
  visited,      \* crawl: visited
  queue,        \* crawl: queue (a deque, head first)
  pages,        \* crawl: pages, a function from its keys to the links recorded
  pc,           \* position: "loop", "goto", "click", "record", "done" (returned),
                \* "raised" (left by an exception), "built" (main has its tree)
  url,          \* crawl: the URL of the current iteration
  page_ok,      \* crawl (pw): page_ok
  all_links,    \* crawl: the links of the rendered channels (html_links in final)
  tab_url,      \* tab.url of the one shared session
  handles,      \* click discovery: len(handles)
  h_idx,        \* click discovery: index of the next element of the for loop
  clicks_done,  \* click discovery: clicks_done (clicks in final)
  discovered,   \* click discovery: discovered
  attempts,     \* history: el.click() calls made on the current page
  origin,       \* history: before_url of the latest click attempt
  last_click,   \* history: the latest click attempt on the current page, <<>> if none
  rendered,     \* history: <<url, outcome>> of every tab.goto of the crawl loop
  popped,       \* history: every URL queue.popleft() returned
  fetched,      \* history: the fetch_html calls, with what crawl knew then
  browser,      \* the Chromium instance crawl launched: "open" or "closed"
  back_failed,  \* history: the pages on which go_back and goto(before_url) both raised
  inp,          \* the argument of a function applied on its own
  out,          \* the results of its successive applications
  tree          \* main: tree, <<>> before it is built

vars == <<variant, site, start_url, max_pages, max_clicks, visited, queue, pages,
          pc, url, page_ok, all_links, tab_url, handles, h_idx, clicks_done,
          discovered, attempts, origin, last_click, rendered, popped, fetched, browser,
          back_failed, inp, out, tree>>

config == <<variant, site, start_url, max_pages, max_clicks>>
clickvars == <<handles, h_idx, clicks_done, discovered, attempts, origin, last_click>>
mainvars == <<inp, out, tree>>

\* crawl's locals before the first iteration
InitWith(S, P) ==
  /\ variant \in {"pw", "final"}
  /\ site \in S
  /\ max_pages \in P
  /\ max_clicks \in IF variant = "pw" THEN 1..MaxClicksBound ELSE {ClickBudgetFinal}
  /\ start_url \in {main_start_url(variant, a) : a \in StartArgs(site)}
  /\ visited = {}
  /\ queue = <<start_url>>
  /\ pages = <<>>
  /\ pc = "loop"
  /\ url = Blank
  /\ page_ok = FALSE
  /\ all_links = {}
  /\ tab_url = Blank
  /\ handles = 0
  /\ h_idx = 1
  /\ clicks_done = 0
  /\ discovered = {}
  /\ attempts = 0
  /\ origin = Blank
  /\ last_click = <<>>
  /\ rendered = <<>>
  /\ popped = <<>>
  /\ fetched = {}
  /\ browser = "open"
  /\ back_failed = {}
  /\ inp = <<>>
  /\ out = <<>>
  /\ tree = <<>>

Init == InitWith(Sites, 0..MaxPagesBound)

\* ----------------------------------------------------------------- crawl loop
\* len(pages)
NumPages(pgs) == Cardinality(DOMAIN pgs)

\* mutant of LoopCond: the test of the queue is forgotten
LoopCondBudgetOnly(q, pgs, maxp) == NumPages(pgs) < maxp

\* while queue and len(pages) < max_pages
LoopCond(q, pgs, maxp) == q # <<>> /\ NumPages(pgs) < maxp

\* mutant of SkipVisited: the visited test at dequeue is missing
SkipVisitedNever(u, vis) == FALSE

\* if url in visited: continue
SkipVisited(u, vis) == u \in vis

\* if link not in visited and len(pages) + len(queue) < max_pages * 2
Admit(link, vis, q, pgs, maxp) ==
  link \notin vis /\ NumPages(pgs) + Len(q) < maxp * 2

\* mutant of EnqueueAll: the links are put at the front of the frontier
RECURSIVE EnqueueAllFront(_, _, _, _, _)
EnqueueAllFront(q, order, vis, pgs, maxp) ==
  IF order = <<>> THEN q
  ELSE EnqueueAllFront(IF Admit(Head(order), vis, q, pgs, maxp)
                       THEN <<Head(order)>> \o q ELSE q,
                       Tail(order), vis, pgs, maxp)

\* for link in all_links: ... queue.append(link), the links taken in the given order
RECURSIVE EnqueueAll(_, _, _, _, _)
EnqueueAll(q, order, vis, pgs, maxp) ==
  IF order = <<>> THEN q
  ELSE EnqueueAll(IF Admit(Head(order), vis, q, pgs, maxp)
                  THEN Append(q, Head(order)) ELSE q,
                  Tail(order), vis, pgs, maxp)

\* the orders in which a set can be iterated
Orders(S) ==
  {f \in [1..Cardinality(S) -> S] : \A i, j \in 1..Cardinality(S) : f[i] = f[j] => i = j}

\* url = queue.popleft(); if url in visited: continue; visited.add(url)
Dequeue ==
  /\ pc = "loop"
  /\ LoopCond(queue, pages, max_pages)
  /\ queue # <<>>   \* popleft of an empty deque raises IndexError: no map is returned
  /\ queue' = Tail(queue)
  /\ popped' = Append(popped, Head(queue))
  /\ IF SkipVisited(Head(queue), visited)
     THEN UNCHANGED <<visited, url, pc>>
     ELSE /\ visited' = visited \cup {Head(queue)}
          /\ url' = Head(queue)
          /\ pc' = "goto"
  /\ UNCHANGED <<config, pages, page_ok, all_links, tab_url, clickvars, rendered, fetched,
                 browser, back_failed, mainvars>>

\* mutant of SessionAfterExit: only browser.close() ends the browser
SessionAfterExitCloseCallOnly(how) == IF how = "return" THEN "closed" ELSE "open"

\* the browser once crawl is left: by "return" after browser.close() and the end
\* of the `with sync_playwright()` block, or by "raise" when an exception unwinds
\* through that block, whose exit stops Playwright and the browser it launched
SessionAfterExit(how) == "closed"

\* the loop condition is false: browser.close(); return pages
Finish ==
  /\ pc = "loop"
  /\ ~LoopCond(queue, pages, max_pages)
  /\ pc' = "done"
  /\ browser' = SessionAfterExit("return")
  /\ UNCHANGED <<config, visited, queue, pages, url, page_ok, all_links, tab_url,
                 clickvars, rendered, popped, fetched, back_failed, mainvars>>

\* mutant of extract_links_from_dom: the links are added as they are
extract_links_from_domRaw(v, s, tab, start) ==
  {x \in Anchors(s, Doc(tab)) : same_site(v, x, start)}

\* extract_links_from_dom: the same-site anchors of the document the tab shows
extract_links_from_dom(v, s, tab, start) ==
  {normalize(v, a) : a \in {x \in Anchors(s, Doc(tab)) : same_site(v, x, start)}}

\* extract_js_nav_links (pw only): onclick_links | router_links
extract_js_nav_links(s, base, start) ==
  {normalize_pw(a) : a \in {x \in JsTargets(s, Doc(base)) : netloc(x) = netloc(start)}}

\* extract_links_static (pw only): the anchors of the fetched markup on base_url's host
extract_links_static(s, base) ==
  {normalize_pw(a) : a \in {x \in StaticAnchors(s, Doc(base)) : netloc(x) = netloc(base)}}

\* what the tab shows after tab.goto(u) ended with outcome o, having shown t:
\* a timeout may come before or after the new document was committed,
\* a failed navigation leaves the old document or the browser's error page
TabAfterGoto(t, u, o) ==
  CASE o = "ok" -> {u}
    [] o = "timeout" -> {t, u}
    [] OTHER -> {t, ErrPage}

\* final only: except Exception ... continue
GotoErrorSkipsPage(v, o) == v = "final" /\ o = "error"

\* whether the rendered channels are read after the goto:
\* pw reads them if page_ok, final whenever the iteration was not abandoned
ReadsPage(v, o) == IF v = "pw" THEN o = "ok" ELSE o # "error"

\* urlsplit, reached through urljoin and urlparse, raises ValueError for a host
\* with one square bracket and not the other
InvalidIPv6(u) ==
  \E n \in {netloc(u)} : (IndexOf(n, "[") # 0) # (IndexOf(n, "]") # 0)

\* whether link extraction meets an href it cannot join: the anchors of the
\* document shown, and in pw the onclick and data-url targets
ExtractionRaises(v, s, tab, base) ==
  \E a \in Anchors(s, Doc(tab)) \cup (IF v = "pw" THEN JsTargets(s, Doc(base)) ELSE {}) :
    InvalidIPv6(a)

\* tab.goto, scrolling, menu expansion, link extraction, and the first lines of
\* click discovery (query_selector_all). Scrolling and menu expansion swallow
\* their exceptions and assign none of crawl's variables; their clicks are taken
\* to open menus without navigating the session.
Render ==
  /\ pc = "goto"
  /\ \E o \in NavOutcomes(site, url) : \E t \in TabAfterGoto(tab_url, url, o) :
       /\ rendered' = Append(rendered, <<url, o>>)
       /\ tab_url' = t
       /\ page_ok' = (variant = "pw" /\ o = "ok")
       /\ IF GotoErrorSkipsPage(variant, o)
          THEN /\ pc' = "loop"
               /\ UNCHANGED <<all_links, clickvars>>
          ELSE IF ReadsPage(variant, o)
          THEN /\ ~ExtractionRaises(variant, site, t, url)
               /\ all_links' = extract_links_from_dom(variant, site, t, start_url)
                      \cup (IF variant = "pw"
                            THEN extract_js_nav_links(site, url, start_url) ELSE {})
               /\ handles' = NumHandles(site, Doc(t))
               /\ h_idx' = 1
               /\ clicks_done' = 0
               /\ discovered' = {}
               /\ attempts' = 0
               /\ origin' = Blank
               /\ last_click' = <<>>
               /\ pc' = IF NumHandles(site, Doc(t)) = 0 THEN "record" ELSE "click"
          ELSE /\ all_links' = {}
               /\ pc' = "record"
               /\ UNCHANGED clickvars
  /\ UNCHANGED <<config, visited, queue, pages, url, popped, fetched, browser,
                 back_failed, mainvars>>

\* tab.goto and the steps up to link extraction, where urljoin raises ValueError
\* on a malformed href: nothing in crawl catches it, crawl returns no map
ExtractionFails ==
  /\ pc = "goto"
  /\ \E o \in NavOutcomes(site, url) : \E t \in TabAfterGoto(tab_url, url, o) :
       /\ ReadsPage(variant, o)
       /\ ExtractionRaises(variant, site, t, url)
       /\ rendered' = Append(rendered, <<url, o>>)
       /\ tab_url' = t
       /\ page_ok' = (variant = "pw" /\ o = "ok")
  /\ pc' = "raised"
  /\ browser' = SessionAfterExit("raise")
  /\ UNCHANGED <<config, visited, queue, pages, url, all_links, clickvars, popped,
                 fetched, back_failed, mainvars>>

\* ------------------------------------------------------------ click discovery
\* mutant of BudgetSpent: the comparison is off by one
BudgetSpentOffByOne(clicks, maxc) == clicks > maxc

\* if clicks_done >= max_clicks: break
BudgetSpent(clicks, maxc) == clicks >= maxc

\* what el.click() under tab.expect_navigation can do to a session showing `before`:
\*   "nav"      the navigation completed, the session shows the target
\*   "timeout"  TimeoutError; the URL is unchanged, or was changed by in-page routing
\*   "error"    another exception; the URL is unchanged, or the navigation the click
\*              started failed and the session shows the browser's error page
ClickResults(s, before) ==
       {<<"nav", l>> : l \in ClickTargets(s, Doc(before))}
  \cup {<<"timeout", l>> : l \in {before} \cup ClickTargets(s, Doc(before))}
  \cup {<<"error", l>> : l \in {before, ErrPage}}

\* nav_happened after the try block
NavHappened(o, land, before) == o = "nav" \/ (o = "timeout" /\ land # before)

\* mutant of ClickRecords: the comparison with the origin is missing
ClickRecordsSameSiteOnly(v, new, before, start) == same_site(v, new, start)

\* the test guarding discovered.add(new_url)
ClickRecords(v, new, before, start) ==
  same_site(v, new, start) /\ new # normalize(v, before)

\* tab.go_back, then tab.goto(before_url) if it raised:
\*   "back"  go_back returned            "goto"  go_back raised, goto returned
\*   "fail"  both raised: break
RestoreOutcomes == {"back", "goto", "fail"}

\* mutant of RestoreCalls: tab.goto(before_url) follows go_back in every case
RestoreCallsGotoAlways(r, before) ==
  <<[op |-> "go_back", arg |-> <<>>, res |-> IF r = "back" THEN "ok" ELSE "raised"],
    [op |-> "goto", arg |-> before, res |-> IF r = "fail" THEN "raised" ELSE "ok"]>>

\* the calls made on the session to restore it, each with how it ended:
\* try: tab.go_back(...)  except Exception: try: tab.goto(before_url, ...)
RestoreCalls(r, before) ==
  IF r = "back" THEN <<[op |-> "go_back", arg |-> <<>>, res |-> "ok"]>>
  ELSE <<[op |-> "go_back", arg |-> <<>>, res |-> "raised"],
         [op |-> "goto", arg |-> before, res |-> IF r = "goto" THEN "ok" ELSE "raised"]>>

\* mutant of Consumes: only a click that navigated is counted
ConsumesOnNavOnly(o) == IF o = "nav" THEN 1 ELSE 0

\* clicks_done += 1, after the try block, whichever way the click ended
Consumes(o) == 1

\* restoration is attempted only if nav_happened
Restores(nav) == nav

\* the session after the restoration attempt
TabAfterRestore(r, land, before) == IF r = "fail" THEN land ELSE before

\* mutant of RestoreBreaks: the break is missing
RestoreBreaksNever(r) == FALSE

\* both restoration steps raised: break
RestoreBreaks(r) == r = "fail"

\* one iteration of `for el in handles`, or the end of the loop
ClickCandidate ==
  /\ pc = "click"
  /\ IF h_idx > handles \/ BudgetSpent(clicks_done, max_clicks)
     THEN \* the loop is over: return discovered
          /\ pc' = "record"
          /\ UNCHANGED <<tab_url, clickvars, back_failed>>
     ELSE \E box \in {"box", "none", "raise"} :
          IF box # "box"
          THEN \* no bounding box: continue
               /\ h_idx' = h_idx + 1
               /\ UNCHANGED <<pc, tab_url, handles, clicks_done, discovered, attempts, origin,
                              last_click, back_failed>>
          ELSE \E c \in ClickResults(site, tab_url) : \E r \in RestoreOutcomes :
               LET before == tab_url
                   nav    == NavHappened(c[1], c[2], before)
                   new    == normalize(variant, c[2])
               IN /\ origin' = before
                  /\ attempts' = attempts + 1
                  /\ clicks_done' = clicks_done + Consumes(c[1])
                  /\ h_idx' = h_idx + 1
                  /\ discovered' = IF nav /\ ClickRecords(variant, new, before, start_url)
                                   THEN discovered \cup {new} ELSE discovered
                  /\ tab_url' = IF Restores(nav) THEN TabAfterRestore(r, c[2], before)
                                ELSE c[2]
                  /\ pc' = IF Restores(nav) /\ RestoreBreaks(r) THEN "record" ELSE "click"
                  /\ back_failed' = IF Restores(nav) /\ r = "fail"
                                    THEN back_failed \cup {[url |-> url, found |-> discovered',
                                                            left |-> handles - h_idx]}
                                    ELSE back_failed
                  /\ last_click' = [before |-> before, outcome |-> c[1], land |-> c[2],
                                     had |-> discovered, has |-> discovered',
                                     spent |-> clicks_done' - clicks_done,
                                     calls |-> IF Restores(nav)
                                               THEN RestoreCalls(r, before) ELSE <<>>]
                  /\ UNCHANGED handles
  /\ UNCHANGED <<config, visited, queue, pages, url, page_ok, all_links,
                 rendered, popped, fetched, browser, mainvars>>

\* ------------------------------------------------------------------ recording
\* mutant of FallbackGate: the page_ok test is missing
FallbackGateNoLinksOnly(links, ok) == links = {}

\* if not all_links and not page_ok  (pw; final has no fallback)
FallbackGate(links, ok) == links = {} /\ ~ok

\* mutant of PutPage: every link of the page gets an entry of its own
PutPageAndLinks(pgs, u, links) ==
  [k \in DOMAIN pgs \cup {u} \cup links |->
     IF k = u THEN links ELSE IF k \in DOMAIN pgs THEN pgs[k] ELSE {}]

\* mutant of PutPage: the entry is written without the links
PutPageNoLinks(pgs, u, links) ==
  [k \in DOMAIN pgs \cup {u} |-> IF k = u THEN {} ELSE pgs[k]]

\* pages[url] = ...
PutPage(pgs, u, links) ==
  [k \in DOMAIN pgs \cup {u} |-> IF k = u THEN links ELSE pgs[k]]

\* the union of the channels, the fallback fetch, pages[url] = ..., and the
\* enqueueing of the links
Record ==
  /\ pc = "record"
  /\ LET union == all_links \cup discovered
         gate  == variant = "pw" /\ FallbackGate(union, page_ok)
     IN \E f \in (IF gate THEN FetchOutcomes(site, url) ELSE {"skip"}) :
        LET links == IF f = "html" THEN extract_links_static(site, url) ELSE union
        IN /\ fetched' = IF gate
                         THEN fetched \cup {[url |-> url, page_ok |-> page_ok,
                                             union |-> union, got |-> f]}
                         ELSE fetched
           /\ pages' = PutPage(pages, url, links)
           /\ \E order \in Orders(links) :
                queue' = EnqueueAll(queue, order, visited, pages', max_pages)
  /\ pc' = "loop"
  /\ all_links' = {}
  /\ page_ok' = FALSE
  /\ handles' = 0
  /\ h_idx' = 1
  /\ clicks_done' = 0
  /\ discovered' = {}
  /\ attempts' = 0
  /\ origin' = Blank
  /\ last_click' = <<>>
  /\ UNCHANGED <<config, visited, url, tab_url, rendered, popped, browser, back_failed, mainvars>>

\* --------------------------------------------------------------- tree builder
\* the characters of the URLs, in code-point order: how str compares
CharOrder ==
  <<"#", ".", "/", "1", ":", "=", "?", "[", "a", "b", "c", "d", "e", "f", "h", "m",
    "o", "p", "q", "s", "t", "u", "w", "x", "y">>

Ord(c) == CHOOSE i \in 1..Len(CharOrder) : CharOrder[i] = c

\* a < b for str
StrLess(a, b) ==
  \E k \in 1..(Len(b)) :
    /\ k <= Len(a) + 1
    /\ \A i \in 1..(k - 1) : a[i] = b[i]
    /\ k = Len(a) + 1 \/ Ord(a[k]) < Ord(b[k])

\* sorted(S) for a set of str
RECURSIVE Sorted(_)
Sorted(S) ==
  IF S = {} THEN <<>>
  ELSE LET m == CHOOSE x \in S : \A y \in S : x = y \/ StrLess(x, y)
       IN <<m>> \o Sorted(S \ {m})

\* urlparse(url).path: what follows the authority, up to "?" or "#"
url_path(u) ==
  LET i == SchemeSep(u)
  IN IF i = 0 THEN BeforeFirst(BeforeFirst(u, "?"), "#")
     ELSE BeforeFirst(BeforeFirst(
            SubSeq(u, i + 3 + Len(netloc(u)), Len(u)), "?"), "#")

\* urlparse(url).scheme
url_scheme(u) == IF SchemeSep(u) = 0 THEN <<>> ELSE SubSeq(u, 1, SchemeSep(u) - 1)

\* number of leading "/" of s
LeadingSlashes(s) == Cardinality({k \in 1..Len(s) : \A i \in 1..k : s[i] = "/"})

\* s.strip("/")
StripSlash(s) ==
  IF LeadingSlashes(s) = Len(s) THEN <<>>
  ELSE SubSeq(s, LeadingSlashes(s) + 1, Len(s) - TrailingSlashes(s))

\* s.split("/")
RECURSIVE Split(_)
Split(s) ==
  IF IndexOf(s, "/") = 0 THEN <<s>>
  ELSE <<SubSeq(s, 1, IndexOf(s, "/") - 1)>> \o Split(SubSeq(s, IndexOf(s, "/") + 1, Len(s)))

\* "/".join(segs)
RECURSIVE Join(_)
Join(segs) ==
  IF segs = <<>> THEN <<>>
  ELSE IF Len(segs) = 1 THEN segs[1]
  ELSE segs[1] \o <<"/">> \o Join(Tail(segs))

\* [seg for seg in segs if seg]
RECURSIVE NonEmpty(_)
NonEmpty(segs) ==
  IF segs = <<>> THEN <<>>
  ELSE (IF segs[1] = <<>> THEN <<>> ELSE <<segs[1]>>) \o NonEmpty(Tail(segs))

\* the value None of a node's "url"
None == <<>>

\* A tree is a function from positions to nodes: the root is at <<>>, the i-th
\* element of the "children" list of the node at p is at Append(p, i). A node is
\* a record of "name", "url" and "_path" (here: path).
Node(name, u, path) == [name |-> name, url |-> u, path |-> path]

\* len(parent["children"])
NumChildren(T, p) ==
  Cardinality({q \in DOMAIN T : Len(q) = Len(p) + 1 /\ SubSeq(q, 1, Len(p)) = p})

\* mutant of FindChild: the search of the children finds nothing
FindChildNothing(T, p, seg_path) == {}

\* for child in parent["children"]: if child["_path"] == seg_path
FindChild(T, p, seg_path) ==
  {i \in 1..NumChildren(T, p) : T[Append(p, i)].path = seg_path}

\* find_or_create / find_or_create_child: the tree and the position of the child
find_or_create(T, p, seg_path, label, node_url) ==
  LET hit == FindChild(T, p, seg_path)
      new == Append(p, NumChildren(T, p) + 1)
  IN IF hit # {}
     THEN <<T, Append(p, CHOOSE i \in hit : \A j \in hit : i <= j)>>
     ELSE <<[q \in DOMAIN T \cup {new} |->
               IF q = new THEN Node(label, node_url, seg_path) ELSE T[q]], new>>

\* url_by_path.get(seg_path, None): the last key whose stripped path is seg_path
url_by_path(keys, seg_path) ==
  LET hits == {i \in 1..Len(keys) : StripSlash(url_path(keys[i])) = seg_path}
  IN IF hits = {} THEN None ELSE keys[CHOOSE i \in hits : \A j \in hits : j <= i]

\* the segments the loop body walks for a URL
segments(v, u) ==
  IF v = "pw" THEN Split(StripSlash(url_path(u)))
  ELSE NonEmpty(Split(StripSlash(url_path(u))))

\* seg_path after k segments: "/".join(accumulated) in pw, accum in final
seg_path_of(v, segs, k) ==
  IF v = "pw" THEN Join(SubSeq(segs, 1, k)) ELSE <<"/">> \o Join(SubSeq(segs, 1, k))

\* the label of the node: the segment in pw, the whole seg_path in final
label_of(v, segs, k) == IF v = "pw" THEN segs[k] ELSE seg_path_of(v, segs, k)

\* for seg in segments: node = find_or_create(node, seg_path, label)
RECURSIVE Walk(_, _, _, _, _, _)
Walk(v, T, p, segs, k, keys) ==
  IF k > Len(segs) THEN <<T, p>>
  ELSE LET sp == seg_path_of(v, segs, k)
           r  == find_or_create(T, p, sp, label_of(v, segs, k),
                                IF v = "pw" THEN url_by_path(keys, sp) ELSE None)
       IN Walk(v, r[1], r[2], segs, k + 1, keys)

\* whether the loop body skips the URL: its path is that of the root
SkipsRootPath(v, u) ==
  IF v = "pw" THEN StripSlash(url_path(u)) = <<>>
  ELSE url_path(u) \in {<<>>, <<"/">>}

\* mutant of SetUrl: the assignment is missing
SetUrlSkipped(T, p, u) == T

\* node["url"] = url
SetUrl(T, p, u) == [T EXCEPT ![p].url = u]

\* the body of `for url in ...`: walk the segments, then node["url"] = url
AddUrl(v, T, u, keys) ==
  IF SkipsRootPath(v, u) THEN T
  ELSE LET r == Walk(v, T, <<>>, segments(v, u), 1, keys)
       IN SetUrl(r[1], r[2], u)

\* the loop over the URLs in the order given
RECURSIVE AddAll(_, _, _, _)
AddAll(v, T, order, keys) ==
  IF order = <<>> THEN T
  ELSE AddAll(v, AddUrl(v, T, Head(order), keys), Tail(order), keys)

\* the elements of a sequence
Range(q) == {q[i] : i \in 1..Len(q)}

\* the URLs the loop of the tree builder iterates over, in its order:
\* pages.keys() in pw; sorted(domain_urls) in final, the keys and links whose
\* host is that of the first key
iterated(v, keys, links) ==
  IF v = "pw" THEN keys
  ELSE IF keys = <<>> THEN <<>>
  ELSE Sorted({u \in Range(keys) \cup links : u # <<>> /\ netloc(u) = netloc(keys[1])})

\* build_tree(start_url, pages) of 3webmap_playwright.py before clean: pages is
\* given by its keys in insertion order
build_tree(start, keys) ==
  AddAll("pw", (<<>> :> Node(netloc(start), start, <<>>)), iterated("pw", keys, {}), keys)

\* build_tree_from_pages(pages) of final_webmap.py before clean: pages is given
\* by its keys in insertion order and the union of its values
build_tree_from_pages(keys, links) ==
  IF keys = <<>> THEN <<>>
  ELSE LET scheme == IF url_scheme(keys[1]) = <<>> THEN <<"h", "t", "t", "p", "s">>
                     ELSE url_scheme(keys[1])
           domain == netloc(keys[1])
       IN AddAll("final",
                 (<<>> :> Node(domain \o <<"/">>,
                               scheme \o <<":", "/", "/">> \o domain \o <<"/">>, <<>>)),
                 iterated("final", keys, links), keys)

\* clean(root): the "_path" entries are removed
clean(T) == [q \in DOMAIN T |-> [name |-> T[q].name, url |-> T[q].url]]

\* the tree main obtains, before clean
BuiltTree(v, start, keys, links) ==
  IF v = "pw" THEN build_tree(start, keys) ELSE build_tree_from_pages(keys, links)

\* ------------------------------------------------------------- specifications
Next == Dequeue \/ Render \/ ClickCandidate \/ Record \/ Finish

Spec == Init /\ [][Next]_vars

\* the loop runs to its end: every call of the loop body returns (each blocking
\* call carries a timeout), so a step that can be taken is taken
FairSpec == Spec /\ WF_vars(Next)

\* a crawl of the dense site in which every navigation succeeds and no element
\* is clickable
InitDense == InitWith({"dense"}, {DensePages})

NextDense == Dequeue \/ Render \/ Record \/ Finish

SpecDense == InitDense /\ [][NextDense]_vars

\* a crawl of the site one of whose pages carries a malformed href
InitBroken == InitWith({"broken"}, 0..MaxPagesBound)

NextBroken == Dequeue \/ Render \/ ExtractionFails \/ ClickCandidate \/ Record \/ Finish

SpecBroken == InitBroken /\ [][NextBroken]_vars

\* ------------------------------------------------------- normalize on its own
\* the characters of the strings given to normalize
Alphabet == {"h", ":", "/", "#", "?"}

\* the strings over A of length at most n
Strings(A, n) == UNION {[1..k -> A] : k \in 0..n}

\* "https://a.com/x?q=1#y", "https://a.com/x", "https://a.com/", "https://a.com"
ExQueryFrag ==
  <<"h", "t", "t", "p", "s", ":", "/", "/", "a", ".", "c", "o", "m", "/", "x",
    "?", "q", "=", "1", "#", "y">>
ExPath == SubSeq(ExQueryFrag, 1, 15)
ExOrigin == SubSeq(ExQueryFrag, 1, 14)
ExHost == SubSeq(ExQueryFrag, 1, 13)

\* the arguments normalize is applied to: every short string, every short
\* continuation of a scheme, and the URLs above with up to two more slashes
NormalizeInputs ==
       Strings(Alphabet, MaxLen)
  \cup {Scheme \o t : t \in Strings({"e", "/", "#", "?"}, MaxLen)}
  \cup {ExQueryFrag, ExPath, ExOrigin, ExHost, ExOrigin \o <<"/">>,
        ExPath \o <<"/">>, ExPath \o <<"/", "/">>}

\* no crawl is running
NoCrawl ==
  /\ site = "none"
  /\ start_url = Blank
  /\ max_pages = 0
  /\ max_clicks = 0
  /\ visited = {}
  /\ queue = <<>>
  /\ pages = <<>>
  /\ url = Blank
  /\ page_ok = FALSE
  /\ all_links = {}
  /\ tab_url = Blank
  /\ handles = 0
  /\ h_idx = 1
  /\ clicks_done = 0
  /\ discovered = {}
  /\ attempts = 0
  /\ origin = Blank
  /\ last_click = <<>>
  /\ rendered = <<>>
  /\ popped = <<>>
  /\ fetched = {}
  /\ browser = "none"
  /\ back_failed = {}

InitNormalize ==
  /\ variant \in {"pw", "final"}
  /\ NoCrawl
  /\ pc = "main"
  /\ inp \in NormalizeInputs
  /\ out = <<>>
  /\ tree = <<>>

\* normalize applied to the argument, then to its own result
ApplyNormalize ==
  /\ pc = "main"
  /\ Len(out) < 2
  /\ out' = Append(out, normalize(variant, IF out = <<>> THEN inp ELSE out[Len(out)]))
  /\ UNCHANGED <<config, visited, queue, pages, pc, url, page_ok, all_links, tab_url,
                 clickvars, rendered, popped, fetched, browser, back_failed, inp, tree>>

NextNormalize == ApplyNormalize

SpecNormalize == InitNormalize /\ [][NextNormalize]_vars

\* ------------------------------------------------------ main: crawl, then tree
\* list(pages.keys()): the keys in insertion order, which is the order of the
\* tab.goto calls of the pages that were recorded
RECURSIVE KeyOrder(_, _)
KeyOrder(r, pgs) ==
  IF r = <<>> THEN <<>>
  ELSE (IF Head(r)[1] \in DOMAIN pgs THEN <<Head(r)[1]>> ELSE <<>>) \o KeyOrder(Tail(r), pgs)

\* the links of all pages: for links in pages.values(): all_urls |= set(links)
AllLinks(pgs) == UNION {pgs[k] : k \in DOMAIN pgs}

\* main after crawl returned: tree = build_tree(start_url, pages), or
\* build_tree_from_pages(pages); without pages there is no tree
BuildTree ==
  /\ pc = "done"
  /\ pc' = "built"
  /\ tree' = IF pages = <<>> THEN <<>>
             ELSE clean(BuiltTree(variant, start_url, KeyOrder(rendered, pages),
                                  AllLinks(pages)))
  /\ UNCHANGED <<config, visited, queue, pages, url, page_ok, all_links, tab_url,
                 clickvars, rendered, popped, fetched, browser, back_failed, inp, out>>

\* main on ex.com and on the site that links to /a under two schemes, with
\* --max-pages 10; no page has a clickable element
InitMain == InitWith({"ex", "mixed"}, {ExMaxPages})

NextMain == Dequeue \/ Render \/ Record \/ Finish \/ BuildTree

SpecMain == InitMain /\ [][NextMain]_vars

\* ---------------------------------------------------- tree builder on its own
\* the URLs the key sets are drawn from
TreePool == {PgA, PgAB, PgAC, PgD, PgDB, AltA}

\* the pages given to the tree builders: the start URL and up to MaxKeys more
\* keys, or the four keys /a, /a/b, /a/c, /d; and the links that are no keys
TreeInputs ==
  {[start |-> Root, keys |-> {Root} \cup K, links |-> L] :
     K \in {X \in SUBSET TreePool : Cardinality(X) <= MaxKeys} \cup {{PgA, PgAB, PgAC, PgD}},
     L \in {{}, {PgDB, Off}}}

InitTree ==
  /\ variant \in {"pw", "final"}
  /\ NoCrawl
  /\ pc = "main"
  /\ inp \in TreeInputs
  /\ out = <<>>
  /\ tree = <<>>

\* the tree built from the pages with their keys inserted in some order, the
\* start URL first as in every crawl; done twice
ApplyBuildTree ==
  /\ pc = "main"
  /\ Len(out) < 2
  /\ \E order \in {f \in Orders(inp.keys) : f[1] = inp.start} :
       LET T == BuiltTree(variant, inp.start, order, inp.links)
       IN out' = Append(out, [keys |-> order, built |-> T, tree |-> clean(T)])
  /\ UNCHANGED <<config, visited, queue, pages, pc, url, page_ok, all_links, tab_url,
                 clickvars, rendered, popped, fetched, browser, back_failed, inp, tree>>

NextTree == ApplyBuildTree

SpecTree == InitTree /\ [][NextTree]_vars

\* ---------------------------------------------------------------- properties
NoDup(q) == \A i, j \in 1..Len(q) : q[i] = q[j] => i = j

Min(a, b) == IF a <= b THEN a ELSE b

\* the links a page of the site reports when rendered without clicks
PageLinks(v, s, u, start) ==
  extract_links_from_dom(v, s, u, start)
    \cup (IF v = "pw" THEN extract_js_nav_links(s, u, start) ELSE {})

\* the URLs reachable from the start URL through reported links
RECURSIVE ReachFrom(_)
ReachFrom(S) ==
  LET N == S \cup UNION {PageLinks(variant, site, u, start_url) : u \in S}
  IN IF N = S THEN S ELSE ReachFrom(N)

\* C1: when crawl returns, the number of visited URLs is the number of URLs
\* reachable from the start URL, capped at max_pages (every navigation
\* succeeding, every page reporting a fixed link set)
C1_VisitedIsReachableCapped ==
  pc = "done" =>
    Cardinality(visited) = Min(Cardinality(ReachFrom({start_url})), max_pages)

\* C2: the queue never holds two copies of a URL and no URL is dequeued twice
C2_NoUrlEntersTwice == NoDup(queue) /\ NoDup(popped)

\* C3: no URL is the target of two tab.goto calls of the crawl loop, whatever
\* the outcome of the first
C3_RenderedAtMostOnce ==
  \A i, j \in 1..Len(rendered) : rendered[i][1] = rendered[j][1] => i = j

\* C3 witness: a URL whose navigation failed is among the links recorded for a
\* page rendered after it
C3_FailedUrlRediscovered ==
  \E i, j \in 1..Len(rendered) :
    /\ i < j
    /\ rendered[i][2] # "ok"
    /\ rendered[j][1] \in DOMAIN pages
    /\ rendered[i][1] \in pages[rendered[j][1]]

\* C4: with max_pages >= 1, visited plus queued URLs number at most 2 x max_pages
C4_FrontierBounded ==
  max_pages >= 1 => Cardinality(visited) + Len(queue) <= 2 * max_pages

\* C5: the visited set never holds more than max_pages URLs, and nothing is
\* dequeued once it holds max_pages
C5_VisitedWithinBudget ==
  /\ Cardinality(visited) <= max_pages
  /\ (pc = "loop" /\ Cardinality(visited) = max_pages) => ~ENABLED Dequeue

C7_ClickBudget == attempts <= max_clicks

\* C7 witness: the budget of the final variant is used up with a candidate left
C7_BudgetUsedUp ==
  /\ variant = "final"
  /\ pc = "click"
  /\ attempts = ClickBudgetFinal
  /\ h_idx <= handles

\* C8: click discovery goes on to a further candidate only with the session on
\* the origin recorded before the latest click attempt
C8_RestoredOrHalted ==
  (pc = "click" /\ attempts > 0 /\ h_idx <= handles
     /\ ~BudgetSpent(clicks_done, max_clicks)) => tab_url = origin

\* C9: fetch_html is called for a URL only if its navigation did not succeed and
\* the rendered channels and click discovery gave no link; in particular never
\* for a URL whose navigation succeeded
C9_FallbackGated ==
  /\ \A r \in fetched :
       /\ r.union = {}
       /\ \E i \in 1..Len(rendered) : rendered[i][1] = r.url /\ rendered[i][2] # "ok"
  /\ \A i \in 1..Len(rendered) :
       rendered[i][2] = "ok" => \A r \in fetched : r.url # rendered[i][1]

\* C9 witness: a fetch was made, and a page that rendered with zero links was
\* recorded without one
C9_FetchedAndZeroLinkPage ==
  /\ fetched # {}
  /\ \E i \in 1..Len(rendered) :
       /\ rendered[i][2] = "ok"
       /\ rendered[i][1] \in DOMAIN pages
       /\ pages[rendered[i][1]] = {}

\* C10: a URL whose navigation and fallback fetch both failed has an entry with
\* no links, and when crawl returns every visited URL is a key of the map
C10_VisitedAreKeys ==
  /\ \A r \in fetched : (r.got = "none" /\ pc = "loop") =>
       (r.url \in DOMAIN pages /\ pages[r.url] = {})
  /\ pc = "done" => visited \subseteq DOMAIN pages

\* C11: once go_back and goto(before_url) have both raised on a page, no further
\* candidate of that page is tried, the links click discovery had found by then
\* are recorded under the page, and the crawl is at its recording step or back
\* in its loop
C11_BreakEndsPageOnly ==
  \A b \in back_failed :
    /\ ~(pc = "click" /\ url = b.url)
    /\ IF b.url \in DOMAIN pages
       THEN b.found \subseteq pages[b.url]
       ELSE pc = "record" /\ url = b.url /\ b.found \subseteq discovered

\* C11 witness: restoration failed with a link found and candidates left, the
\* page was recorded with that link, and a later queue entry is being processed
C11_CrawlWentOnAfterBreak ==
  \E b \in back_failed :
    /\ b.found # {}
    /\ b.left > 0
    /\ b.url \in DOMAIN pages
    /\ b.found \subseteq pages[b.url]
    /\ pc = "goto"
    /\ url # b.url

CutAtMark(u) ==
  LET hits == {i \in 1..Len(u) : u[i] \in {"#", "?"}}
  IN IF hits = {} THEN u
     ELSE SubSeq(u, 1, (CHOOSE i \in hits : \A j \in hits : i <= j) - 1)

\* s is t with some of t's trailing slashes removed
UpToTrailingSlashes(s, t) ==
  \E k \in 0..Len(t) : s = SubSeq(t, 1, k) /\ \A i \in (k+1)..Len(t) : t[i] = "/"

\* C13: normalize applied to its own result returns that result
C13_NormalizeIdempotent == Len(out) = 2 => out[2] = out[1]

\* C13 witness: a URL with scheme, two trailing slashes and a fragment was
\* normalized twice, the first time to something else than itself
C13_NormalizedTwice ==
  /\ inp = Scheme \o <<"e", "/", "/", "#">>
  /\ Len(out) = 2
  /\ out[1] # inp

\* C14: for a non-empty u, normalize(u) has no "#" and no "?" and is the part of
\* u before its first "#" or "?" with trailing slashes removed or not;
\* normalize("https://a.com/x?q=1#y") is "https://a.com/x"
C14_StripsFragmentAndQuery ==
  (inp # <<>> /\ Len(out) >= 1) =>
    /\ \A i \in 1..Len(out[1]) : out[1][i] \notin {"#", "?"}
    /\ UpToTrailingSlashes(out[1], CutAtMark(inp))
    /\ inp = ExQueryFrag => out[1] = ExPath

\* C14 witness: "https://a.com/x?q=1#y" was normalized
C14_ExampleNormalized == inp = ExQueryFrag /\ Len(out) >= 1 /\ out[1] = ExPath

\* whether u is scheme://host followed by one or more slashes and nothing else
OriginOnly(u) ==
  /\ SchemeSep(u) # 0
  /\ netloc(u) # <<>>
  /\ Len(u) > SchemeSep(u) + 2 + Len(netloc(u))
  /\ \A i \in (SchemeSep(u) + 3 + Len(netloc(u)))..Len(u) : u[i] = "/"

\* scheme://host/ of an origin-only URL
RootForm(u) == SubSeq(u, 1, SchemeSep(u) + 3 + Len(netloc(u)))

\* C15: normalize leaves scheme://host/ in place whatever the number of slashes
\* after the host (normalize("https://a.com/") is "https://a.com/"), and removes
\* exactly one trailing "/" from any other URL ending in one
C15_OneSeparatorRootKept ==
  (Len(out) >= 1 /\ inp # <<>> /\ CutAtMark(inp) = inp /\ SchemeSep(inp) # 0) =>
    /\ inp = ExOrigin => out[1] = ExOrigin
    /\ OriginOnly(inp) =>
         /\ Len(out[1]) >= Len(RootForm(inp))
         /\ SubSeq(out[1], 1, Len(RootForm(inp))) = RootForm(inp)
    /\ (~OriginOnly(inp) /\ EndsWithSlash(inp)) => out[1] = SubSeq(inp, 1, Len(inp) - 1)

\* the URLs of a sequence that get a node of their own: those with a path
\* below the root
Walked(v, order) == {u \in Range(order) : ~SkipsRootPath(v, u)}

\* the accumulated prefix after all segments of u
FullPath(v, u) == seg_path_of(v, segments(v, u), Len(segments(v, u)))

\* an accumulated prefix without its last segment; that of the root is empty
ParentPath(v, path) ==
  LET segs  == IF v = "pw" THEN Split(path) ELSE Split(Tail(path))
      front == SubSeq(segs, 1, Len(segs) - 1)
  IN IF front = <<>> THEN <<>>
     ELSE IF v = "pw" THEN Join(front) ELSE <<"/">> \o Join(front)

\* the positions reached from p by following, segment after segment, the
\* children labelled for the segments k.. of segs
RECURSIVE Descend(_, _, _, _, _)
Descend(T, p, v, segs, k) ==
  IF k > Len(segs) THEN {p}
  ELSE UNION {Descend(T, Append(p, i), v, segs, k + 1) :
                i \in {j \in 1..NumChildren(T, p) :
                         T[Append(p, j)].name = label_of(v, segs, k)}}

\* C16: the tree built from a set of pages is the same whatever the order in
\* which the pages were discovered, the order of children included; from the
\* keys /a, /a/b, /a/c, /d the root has the two children a and d, a has the two
\* children b and c, and d has none
C16_OrderIndependent ==
  /\ Len(out) = 2 => out[1].tree = out[2].tree
  /\ \A i \in 1..Len(out) :
       (inp.keys = {Root, PgA, PgAB, PgAC, PgD} /\ inp.links = {}) =>
         LET T == out[i].tree
         IN /\ NumChildren(T, <<>>) = 2
            /\ \E a, d \in 1..2 :
                 /\ T[<<a>>].url = PgA
                 /\ T[<<d>>].url = PgD
                 /\ NumChildren(T, <<a>>) = 2
                 /\ {T[<<a, 1>>].url, T[<<a, 2>>].url} = {PgAB, PgAC}
                 /\ NumChildren(T, <<d>>) = 0

\* C17: in a built tree no two nodes have the same accumulated prefix, the
\* parent of a node has the node's prefix without its last segment, and every
\* URL with a path has the node of its full prefix, so that /a/b and /d/b are
\* two nodes
C17_NodeIdentityIsPrefix ==
  \A i \in 1..Len(out) :
    LET T == out[i].built
    IN /\ \A p, q \in DOMAIN T : T[p].path = T[q].path => p = q
       /\ \A q \in DOMAIN T \ {<<>>} :
            T[SubSeq(q, 1, Len(q) - 1)].path = ParentPath(variant, T[q].path)
       /\ \A u \in Walked(variant, iterated(variant, out[i].keys, inp.links)) :
            \E q \in DOMAIN T : T[q].path = FullPath(variant, u)

\* C17 witness: a tree was built in which /a and /d each have a child for the
\* segment b
C17_SameSegmentTwoParents ==
  /\ Len(out) >= 1
  /\ \E p, q \in DOMAIN out[1].built :
       /\ out[1].built[p].url = PgAB
       /\ out[1].built[q].url = PgDB
       /\ Len(p) = 2 /\ Len(q) = 2
       /\ p[1] # q[1]

\* the statements of C18 about the crawl of ex.com: ex.com is a key, the root
\* stands for ex.com, it has a child for /about which has a child for
\* /about/team with the URL https://ex.com/about/team
ExampleTree ==
  (pc = "built" /\ site = "ex") =>
    /\ ExCom \in DOMAIN pages
    /\ netloc(tree[<<>>].url) = netloc(ExCom)
    /\ tree[<<>>].name \in {netloc(ExCom), netloc(ExCom) \o <<"/">>}
    /\ \E p \in Descend(tree, <<>>, variant, segments(variant, ExAbout), 1) :
         /\ Len(p) = 1
         /\ \E q \in Descend(tree, <<>>, variant, segments(variant, ExTeam), 1) :
              /\ SubSeq(q, 1, 1) = p
              /\ Len(q) = 2
              /\ tree[q].url = ExTeam

\* the last URL the builder iterates over that has the segments of u
LastWithSegments(v, order, u) ==
  order[CHOOSE i \in 1..Len(order) :
          /\ segments(v, order[i]) = segments(v, u)
          /\ \A j \in 1..Len(order) : segments(v, order[j]) = segments(v, u) => j <= i]

C19_RecordedOnceAndKept ==
  /\ [][\A k \in DOMAIN pages : k \in DOMAIN pages' /\ pages'[k] = pages[k]]_vars
  /\ [](\A u \in visited : (u # url \/ pc \in {"loop", "done"}) => u \in DOMAIN pages)

\* C20: every URL in the queue, in visited, and in pages as a key or as a link
\* is a fixed point of normalize
C20_StoredUrlsCanonical ==
  \A u \in Range(queue) \cup visited \cup DOMAIN pages \cup AllLinks(pages) :
    normalize(variant, u) = u

\* C20 witness: hrefs with a trailing slash, a fragment and a query were read
\* from the start page, and their canonical forms are recorded and queued
C20_CanonicalFormsStored ==
  /\ site = "mesh"
  /\ start_url \in DOMAIN pages
  /\ {PgA, PgB, PgC} \subseteq pages[start_url]
  /\ {PgA, PgB, PgC} \subseteq Range(queue)

\* the same-site test written out from the two hosts, as the crawl states it:
\* equal hosts (pw), or the link's host without a leading "www." ending with
\* the start host without a leading "www." (final)
OnStartSite(u) ==
  IF variant = "pw" THEN netloc(u) = netloc(start_url)
  ELSE EndsWith(strip_www(netloc(u)), strip_www(netloc(start_url)))

\* C21: every link recorded in the map, every link collected for the page in
\* progress, and every URL in the frontier other than the start URL is on the
\* start URL's site, whichever channel found it
C21_OnlySameSiteLinks ==
  /\ \A k \in DOMAIN pages : \A l \in pages[k] : OnStartSite(l)
  /\ \A l \in all_links \cup discovered : OnStartSite(l)
  /\ \A i \in 1..Len(queue) : queue[i] = start_url \/ OnStartSite(queue[i])

\* an off-site link was offered by the anchors, by the inline handlers and by a
\* click, and the pages that offered it are recorded
C21_OffSiteOffered ==
  \/ /\ site = "mesh" /\ variant = "pw"
     /\ {Root, PgA} \subseteq DOMAIN pages
     /\ PgC \in pages[PgA]
     /\ Off \in Anchors(site, Root) /\ Off \in JsTargets(site, PgA)
  \/ /\ site = "clicky" /\ Root \in DOMAIN pages
     /\ PgA \in pages[Root]
     /\ Off \in ClickTargets(site, Root)

\* every URL the frontier ever held, in the order of its arrival: the ones
\* already taken out, then the ones still waiting
Arrivals == popped \o queue

\* C22: the frontier is first-in first-out: a step only takes the URL at the
\* front or adds URLs at the back, so the URLs leave in the order in which they
\* arrived, the start URL first
C22_FrontierIsFifo ==
  /\ [][/\ Len(Arrivals') >= Len(Arrivals)
        /\ SubSeq(Arrivals', 1, Len(Arrivals)) = Arrivals
        /\ Len(popped') \in {Len(popped), Len(popped) + 1}]_vars
  /\ [](pc \in {"loop", "goto", "click", "record", "done"} => Arrivals[1] = start_url)

\* three URLs have left the frontier, the last two found on different pages,
\* while others wait
C22_ThreeDequeuedInOrder ==
  /\ Len(popped) >= 3 /\ queue # <<>>
  /\ popped[1] = start_url
  /\ popped[2] # popped[3]
  /\ popped[2] \in pages[start_url]
  /\ popped[3] \in DOMAIN pages

\* the for loop of click discovery has an element and budget for another turn
LoopGoesOn == h_idx <= handles /\ clicks_done < max_clicks

\* C23: after a click that navigated, go_back is called first; goto is called
\* exactly when go_back raised, and with the origin recorded before the
\* click; discovery on the page is left, with candidates and budget remaining,
\* exactly when that goto raised too
C23_BackThenGoto ==
  last_click # <<>> =>
    LET calls == last_click.calls
        nav   == last_click.outcome = "nav"
                   \/ (last_click.outcome = "timeout" /\ last_click.land # last_click.before)
    IN /\ (calls # <<>>) = nav
       /\ Len(calls) <= 2
       /\ calls # <<>> => calls[1].op = "go_back"
       /\ calls # <<>> => ((Len(calls) = 2) = (calls[1].res = "raised"))
       /\ Len(calls) = 2 => calls[2].op = "goto" /\ calls[2].arg = last_click.before
       /\ pc \in {"click", "record"} /\ LoopGoesOn =>
            ((pc = "record") = (Len(calls) = 2 /\ calls[2].res = "raised"))

\* a click navigated, go_back raised and goto brought the session back to
\* the origin, with candidates and budget left: discovery goes on
C23_BackFailedGotoRestored ==
  /\ pc = "click" /\ last_click # <<>>
  /\ Len(last_click.calls) = 2
  /\ last_click.calls[2].res = "ok"
  /\ tab_url = last_click.before
  /\ LoopGoesOn

\* C24: every el.click() attempted on the page in progress has taken one unit
\* of the click budget, however it ended, and a candidate passed over for want
\* of a bounding box has taken none: the budget used equals the clicks
\* attempted, which never exceed the candidates gone through
C24_OneUnitPerAttempt ==
  /\ clicks_done = attempts
  /\ attempts <= h_idx - 1
  /\ last_click # <<>> => last_click.spent = 1 /\ attempts >= 1

\* a click that raised and left the session on an error page has been counted,
\* after an earlier click, and one candidate was passed over without a click
C24_FailedClickCounted ==
  /\ pc = "click" /\ last_click # <<>>
  /\ last_click.outcome = "error" /\ last_click.land = ErrPage
  /\ clicks_done = 2
  /\ h_idx - 1 > attempts

\* C25: a click adds the normalized current URL to the discovered set exactly
\* when a navigation was observed (the wait completed, or it timed out and the
\* URL differs from the origin), that URL is on the start URL's site and it
\* differs from the normalized origin; otherwise the set is left as it was, so
\* what a click adds is never its own normalized origin
C25_RecordsExactlyOnNavigation ==
  last_click # <<>> =>
    LET c   == last_click
        new == normalize(variant, c.land)
        nav == c.outcome = "nav" \/ (c.outcome = "timeout" /\ c.land # c.before)
    IN /\ c.has = IF nav /\ OnStartSite(new) /\ new # normalize(variant, c.before)
                  THEN c.had \cup {new} ELSE c.had
       /\ normalize(variant, c.before) \notin c.has \ c.had

\* a click changed the URL to the page's own address with a fragment: a
\* navigation was observed and nothing was added; another click had added a page
C25_OwnAddressNotRecorded ==
  /\ last_click # <<>>
  /\ last_click.outcome \in {"nav", "timeout"}
  /\ last_click.land # last_click.before
  /\ normalize(variant, last_click.land) = normalize(variant, last_click.before)
  /\ last_click.has = last_click.had
  /\ last_click.had # {}

\* C26: every key of the map is a visited URL, one that was taken out of the
\* frontier and that tab.goto was called for; a URL only found as a link is
\* in link lists and is no key
C26_KeysAreVisited ==
  /\ DOMAIN pages \subseteq visited
  /\ \A k \in DOMAIN pages :
       /\ \E i \in 1..Len(popped) : popped[i] = k
       /\ \E j \in 1..Len(rendered) : rendered[j][1] = k
  /\ \A l \in AllLinks(pages) : l \notin visited => l \notin DOMAIN pages

\* the crawl has ended with a link in the map that was never taken out of the
\* frontier: it is in a link list and is no key
C26_LinkNeverDequeued ==
  /\ pc = "done"
  /\ \E l \in AllLinks(pages) :
       /\ l \notin DOMAIN pages
       /\ \A i \in 1..Len(popped) : popped[i] # l

\* C27: the links recorded under a URL whose tab.goto did not succeed come
\* from the static fetch of that URL and from nowhere else: nothing read from
\* the page the session was showing is recorded under it
C27_NoLinksFromFailedNavigation ==
  \A j \in 1..Len(rendered) :
    rendered[j][2] # "ok" /\ rendered[j][1] \in DOMAIN pages =>
      pages[rendered[j][1]] \subseteq
        (IF variant = "pw" THEN extract_links_static(site, rendered[j][1]) ELSE {})

\* C28: the origin page is taken up under one key only: no two different
\* URLs of the visited set or of the map both address the document of the
\* start URL, as scheme://host and scheme://host/ do
C28_OriginUnderOneKey ==
  \A u, w \in visited \cup DOMAIN pages :
    Doc(u) = Doc(start_url) /\ Doc(w) = Doc(start_url) => u = w

\* C29: once the tree is built, every key of the map whose path is not the
\* root is the url of some node of the tree
C29_EveryKeyHasItsNode ==
  pc = "built" =>
    \A k \in DOMAIN pages :
      url_path(k) \notin {<<>>, <<"/">>} => \E q \in DOMAIN tree : tree[q].url = k

\* the position at which a URL first left the frontier
FirstPop(u) == CHOOSE i \in 1..Len(popped) : popped[i] = u /\ \A j \in 1..(i - 1) : popped[j] # u

\* C30: every URL other than the start URL that is visited or waits in the
\* frontier is in the recorded link list of a URL that left the frontier
\* before it
C30_DiscoveredFromEarlierPage ==
  /\ \A u \in visited \ {start_url} :
       \E k \in DOMAIN pages :
         /\ u \in pages[k]
         /\ k \in visited
         /\ FirstPop(k) < FirstPop(u)
  /\ \A i \in 1..Len(queue) :
       queue[i] # start_url =>
         \E k \in DOMAIN pages : queue[i] \in pages[k] /\ k \in visited

\* a page reached only through a click on a page that is not the start page
\* has been visited
C30_FoundTwoLevelsDown ==
  /\ PgD \in visited
  /\ PgD \notin pages[start_url]
  /\ PgB \in DOMAIN pages /\ PgD \in pages[PgB]
  /\ FirstPop(start_url) < FirstPop(PgB) /\ FirstPop(PgB) < FirstPop(PgD)

====
